---- MODULE Spec2Model ----
(***************************************************************************)
(* Model of server-full-test.js: a WebSocket relay that keeps six device   *)
(* records, demotes silent devices on a periodic sweep, broadcasts the     *)
(* full table on change, and drains its clients on shutdown.               *)
(*                                                                         *)
(* JavaScript values are records [t, n]: a number carries its value n in   *)
(* thousandths (55.555 is Num(55555)); NaN and undefined carry n = 0.      *)
(* Record fields are written in alphabetical order throughout.             *)
(* Times are integer milliseconds since process start.                     *)
(***************************************************************************)
EXTENDS Integers, Sequences, FiniteSets, TLC

\* The fields of the records below, in the order they are written.
FieldOrder ==
    [avg |-> 1, c |-> 2, con |-> 3, data |-> 4, deviceId |-> 5, dm |-> 6, id |-> 7,
     lastUpdate |-> 8, max |-> 9, min |-> 10, n |-> 11, res |-> 12, t |-> 13,
     to |-> 14, type |-> 15, vol |-> 16]

VARIABLES deviceMap, isTerminated, isServerClosing, sweepArmed, timerArmed,
          clientState, errored, drainClients, closedClients, drainListeners,
          wssCloseCalls, rlClosed, exited, exitCode, now, ev, out,
          endStatsCount, drainCount, setCount, recorded

(***************************************************************************)
(* deviceMap        deviceMap: id -> {vol, avg, max, min, con, lastUpdate}  *)
(* isTerminated     isTerminated                                           *)
(* isServerClosing  isServerClosing                                        *)
(* sweepArmed       deviceCheckInterval is scheduled (not cleared)         *)
(* timerArmed       closeTimeoutTimer is pending                           *)
(* clientState      per connection: "new" (not yet connected), "open",     *)
(*                  "closing" (readyState CLOSING, still in wss.clients),  *)
(*                  "closed" (close emitted, removed from wss.clients)     *)
(* errored          captured connections whose drain 'error' listener ran  *)
(* drainClients     handleTerminateProcess: clients (the captured list)    *)
(* closedClients    handleTerminateProcess: closedClients                  *)
(* drainListeners   captured clients given close and error listeners       *)
(* wssCloseCalls    number of closeWebSocketServer() calls made            *)
(* rlClosed         rl.closed                                              *)
(* exited, exitCode process.exit(code) was called                          *)
(* now              Date.now()                                             *)
(* ev, out          the callback run by the last step and the broadcasts   *)
(*                  it issued, each with its recipients                    *)
(* endStatsCount    end_statistics broadcasts issued so far                *)
(* drainCount       entries to draining so far                             *)
(* setCount         console set commands applied so far                    *)
(* recorded         devices for which a reading has been stored            *)
(***************************************************************************)
vars == <<deviceMap, isTerminated, isServerClosing, sweepArmed, timerArmed,
          clientState, errored, drainClients, closedClients, drainListeners,
          wssCloseCalls, rlClosed, exited, exitCode, now, ev, out,
          endStatsCount, drainCount, setCount, recorded>>

\* Everything but the record of the last step.
progVars == <<deviceMap, isTerminated, isServerClosing, sweepArmed, timerArmed,
              clientState, errored, drainClients, closedClients, drainListeners,
              wssCloseCalls, rlClosed, exited, exitCode, now>>

drainVars == <<isServerClosing, sweepArmed, timerArmed, clientState, drainClients,
               closedClients, drainListeners, wssCloseCalls, drainCount>>

(* ---------------------------- bounds ---------------------------------- *)
MaxClients == 2
MaxNow == 10000
\* Console set commands applied in one run (each one halves avg again).
MaxSets == 1

(* ------------------------- program constants -------------------------- *)
DEVICE_TIMEOUT == 10000
NumDevices == 6

DeviceIds == 1..NumDevices
Clients == 1..MaxClients

(* ------------------------- JavaScript values -------------------------- *)
Num(n) == [n |-> n, t |-> "num"]
NaN == [n |-> 0, t |-> "NaN"]
Undefined == [n |-> 0, t |-> "undefined"]
IsNumber(v) == v.t = "num"

\* parseInt(v): a number is truncated toward zero, undefined gives NaN.
ParseInt(v) ==
    IF v.t = "num"
    THEN IF v.n >= 0 THEN Num((v.n \div 1000) * 1000)
                     ELSE Num(-(((-v.n) \div 1000) * 1000))
    ELSE NaN

\* parseFloat(v): a number is kept, undefined gives NaN.
ParseFloat(v) == IF v.t = "num" THEN v ELSE NaN

\* Faulty variant: the last value instead of the larger one.
MathMaxLast(a, b) == b

\* Math.max / Math.min: NaN if either argument is NaN.
MathMax(a, b) ==
    IF a.t # "num" \/ b.t # "num" THEN NaN
    ELSE IF a.n >= b.n THEN a ELSE b

MathMin(a, b) ==
    IF a.t # "num" \/ b.t # "num" THEN NaN
    ELSE IF a.n <= b.n THEN a ELSE b

\* (a + b) / 2 on numbers; undefined or NaN operands give NaN.  Results are
\* kept to the model's resolution of one thousandth.
HalfSum(a, b) ==
    IF a.t # "num" \/ b.t # "num" THEN NaN
    ELSE Num((a.n + b.n) \div 2)

\* parseFloat(x.toFixed(2)): rounded to hundredths, halves away from zero.
ToFixed2(v) ==
    IF v.t # "num" THEN NaN
    ELSE IF v.n >= 0 THEN Num(((v.n + 5) \div 10) * 10)
                     ELSE Num(-((((-v.n) + 5) \div 10) * 10))

\* JSON.stringify of a field value: NaN is written as null, an undefined
\* field is left out.
Stringify(v) ==
    IF v.t = "num" THEN v
    ELSE IF v.t = "NaN" THEN [n |-> 0, t |-> "null"]
    ELSE [n |-> 0, t |-> "absent"]

\* The comparisons deviceId >= 1 && deviceId <= 6 on a parsed id.
InRange(v) == v.t = "num" /\ v.n >= 1000 /\ v.n <= 6000

\* deviceMap.get(key): defined only for the integer keys 1..6.
MapHas(v) == v.t = "num" /\ v.n \in {d * 1000 : d \in DeviceIds}
MapKey(v) == v.n \div 1000

(* ------------------------------ inputs -------------------------------- *)
\* Device ids as they arrive in a login or logout message: missing, out of
\* range, in range, and with a fraction.
LoginIds == {Undefined, Num(-1000), Num(0), Num(6000), Num(6500), Num(7000)}
\* Device ids of volume messages.
VolumeIds == {Undefined, Num(0), Num(5500), Num(6000), Num(6500), Num(7000)}
\* Device ids of start_monitor messages.
StartIds == {Num(1000), Num(1500), Num(4000)}
\* (vol, avg) of a volume message.
Readings == {<<Undefined, Undefined>>, <<Num(55555), Num(67125)>>,
             <<Num(80000), Num(67500)>>}
\* Volume messages (deviceId, (vol, avg)): every reading for device 6, one
\* reading for each of the other ids.
VolumeMsgs ==
    {m \in VolumeIds \X Readings :
        m[1] = Num(6000) \/ m[2] = <<Num(55555), Num(67125)>>}
\* (id, vol) tokens of a console set command.
SetInputs == {<<Num(6000), Num(40000)>>, <<Num(6000), Num(150000)>>,
              <<Num(7000), Num(40000)>>, <<Num(6000), NaN>>}
TickSteps == {9999, 10000}

(* ----------------------------- registry ------------------------------- *)
InitDevice ==
    [avg |-> Num(0), con |-> FALSE, lastUpdate |-> 0, max |-> Num(0),
     min |-> Num(100000), vol |-> Num(0)]

OpenClients == {c \in Clients : clientState[c] = "open"}
WssClients == {c \in Clients : clientState[c] \in {"open", "closing"}}

\* The snapshot as serialised by JSON.stringify(Array.from(deviceMap.values())).
Snapshot(dm) ==
    [d \in DeviceIds |->
        [avg |-> Stringify(dm[d].avg), con |-> dm[d].con, deviceId |-> d,
         lastUpdate |-> dm[d].lastUpdate, max |-> Stringify(dm[d].max),
         min |-> Stringify(dm[d].min), vol |-> Stringify(dm[d].vol)]]

NoData == [d \in DeviceIds |-> [deviceId |-> d]]

\* Faulty variant: no snapshot while no device is online.
BroadcastIfOnline(dm, closing, open) ==
    IF closing \/ ~\E d \in DeviceIds : dm[d].con THEN <<>>
    ELSE <<[data |-> Snapshot(dm), to |-> open, type |-> "snapshot"]>>

\* broadcast(): one snapshot to every open client, nothing while closing.
Broadcast(dm, closing, open) ==
    IF closing THEN <<>>
    ELSE <<[data |-> Snapshot(dm), to |-> open, type |-> "snapshot"]>>

\* The callback a step ran: its kind, the connection (for 'connection' and
\* the transport notifications), and the device id it was given.
Event(type, c, id) ==
    [avg |-> Undefined, c |-> c, id |-> id, type |-> type, vol |-> Undefined]

\* A volume message with its deviceId, vol and avg fields.
VolumeEvent(deviceId, vol, avg) ==
    [avg |-> avg, c |-> 0, id |-> deviceId, type |-> "volume", vol |-> vol]

Init ==
    /\ deviceMap = [d \in DeviceIds |-> InitDevice]
    /\ isTerminated = FALSE
    /\ isServerClosing = FALSE
    /\ sweepArmed = TRUE
    /\ timerArmed = FALSE
    /\ clientState = [c \in Clients |-> "new"]
    /\ errored = {}
    /\ drainClients = {}
    /\ closedClients = {}
    /\ drainListeners = {}
    /\ wssCloseCalls = 0
    /\ rlClosed = FALSE
    /\ exited = FALSE
    /\ exitCode = 0
    /\ now = 0
    /\ ev = Event("start", 0, Undefined)
    /\ out = <<>>
    /\ endStatsCount = 0
    /\ drainCount = 0
    /\ setCount = 0
    /\ recorded = {}

(* ------------------------- shutdown coordinator ----------------------- *)
\* Faulty variant: the count is complete one client early.
AllClientsClosedEarly(closed, clients) == Cardinality(closed) + 1 >= Cardinality(clients)

\* checkAllClientsClosed: closedClients.size === clients.length
AllClientsClosed(closed, clients) == Cardinality(closed) = Cardinality(clients)

\* Faulty variant: the deadline is never left pending.
DeadlineCleared(clients) == FALSE

\* Whether handleTerminateProcess reaches the setTimeout for a captured list.
DeadlineArmed(clients) == clients # {}

\* The number of closeWebSocketServer() calls made while handleTerminateProcess
\* walks the captured list: one for an empty list, and one when the clients
\* that were not open at capture already make up the whole list.
CallsAtCapture(clients, open) ==
    IF clients = {} THEN 1
    ELSE IF clients \ open # {} /\ AllClientsClosed(clients \ open, clients) THEN 1
    ELSE 0

\* handleTerminateProcess past its guard: capture, close requests, timer.
EnterDraining ==
    /\ isServerClosing' = TRUE
    /\ sweepArmed' = FALSE
    /\ drainClients' = WssClients
    /\ drainListeners' = OpenClients
    /\ closedClients' = WssClients \ OpenClients
    /\ clientState' = [c \in Clients |->
           IF clientState[c] = "open" THEN "closing" ELSE clientState[c]]
    /\ wssCloseCalls' = wssCloseCalls + CallsAtCapture(WssClients, OpenClients)
    /\ timerArmed' = DeadlineArmed(WssClients)
    /\ drainCount' = drainCount + 1

\* Faulty variant: no guard on isServerClosing.
HandleTerminateProcessUnguarded == EnterDraining

\* handleTerminateProcess(deviceId), also reached through closeServer().
HandleTerminateProcess ==
    IF isServerClosing THEN UNCHANGED drainVars ELSE EnterDraining

\* closeServer()
CloseServer == HandleTerminateProcess

(* --------------------------- device updates --------------------------- *)
\* Faulty variant: messages are dispatched while closing.
ShutdownGateOpen(closing) == FALSE

\* The message handler's gate: if (isServerClosing) return.
ShutdownGate(closing) == closing

\* !data.deviceId
Falsy(v) == v.t # "num" \/ v.n = 0

\* updateDevice(data) at time t: "false" (rejected), "throw" (TypeError on a
\* missing map entry, before any assignment) or "true" with the new map.
UpdateDevice(dm, deviceId, vol, avg, t) ==
    IF Falsy(deviceId) \/ deviceId.n < 1000 \/ deviceId.n > 6000
    THEN [dm |-> dm, res |-> "false"]
    ELSE IF ~MapHas(deviceId)
    THEN [dm |-> dm, res |-> "throw"]
    ELSE LET d == MapKey(deviceId)
             newVol == ParseFloat(vol)
         IN [dm |-> [dm EXCEPT ![d] =
                        [avg |-> avg, con |-> TRUE, lastUpdate |-> t,
                         max |-> MathMax(dm[d].max, newVol),
                         min |-> MathMin(dm[d].min, newVol),
                         vol |-> newVol]],
             res |-> "true"]

\* Faulty variant: the login leaves lastUpdate as it was.
ApplyLoginStale(dm, d, t) == [dm EXCEPT ![d].con = TRUE]

\* The login branch: con and lastUpdate of the parsed device.
ApplyLogin(dm, d, t) == [dm EXCEPT ![d].con = TRUE, ![d].lastUpdate = t]

\* Faulty variant: the logout also resets the high watermark.
ApplyLogoutReset(dm, d) == [dm EXCEPT ![d].con = FALSE, ![d].max = dm[d].vol]

\* The logout branch: con of the parsed device.
ApplyLogout(dm, d) == [dm EXCEPT ![d].con = FALSE]

\* The console set branch.
ApplySet(dm, d, vol, t) ==
    [dm EXCEPT ![d] = [avg |-> HalfSum(dm[d].avg, vol), con |-> TRUE,
                       lastUpdate |-> t,
                       max |-> MathMax(dm[d].max, vol),
                       min |-> MathMin(dm[d].min, vol),
                       vol |-> vol]]

\* Faulty variant: the timeout compared with <=.
SweepConLate(dev, t) == (t - dev.lastUpdate) <= DEVICE_TIMEOUT

\* One device under the sweep at time t.
SweepCon(dev, t) == (t - dev.lastUpdate) < DEVICE_TIMEOUT

\* Faulty variant: offline devices are not skipped.
SweepDeviceAll(dev, t) == [dev EXCEPT !.con = (t - dev.lastUpdate) < DEVICE_TIMEOUT]

SweepDevice(dev, t) ==
    IF ~dev.con THEN dev ELSE [dev EXCEPT !.con = SweepCon(dev, t)]

\* Faulty variant: every sweep reports a change.
StatusChangedAlways(old, new) == TRUE

\* statusChanged after the sweep's loop: some device's con differs.
StatusChanged(old, new) == \E d \in DeviceIds : new[d].con # old[d].con

(* ------------------------------ actions ------------------------------- *)
\* The clock advances between callbacks.
Tick(d) ==
    /\ ~exited
    /\ now + d <= MaxNow
    /\ now' = now + d
    /\ ev' = Event("tick", 0, Undefined)
    /\ out' = <<>>
    /\ UNCHANGED <<deviceMap, isTerminated, endStatsCount, drainVars, errored,
                   rlClosed, exited, exitCode, setCount, recorded>>

\* setInterval callback.
Sweep ==
    /\ ~exited
    /\ sweepArmed
    /\ ev' = Event("sweep", 0, Undefined)
    /\ IF isServerClosing
       THEN /\ deviceMap' = deviceMap
            /\ out' = <<>>
       ELSE /\ deviceMap' = [d \in DeviceIds |-> SweepDevice(deviceMap[d], now)]
            /\ out' = IF StatusChanged(deviceMap, deviceMap')
                      THEN Broadcast(deviceMap', isServerClosing, OpenClients)
                      ELSE <<>>
    /\ UNCHANGED <<isTerminated, endStatsCount, drainVars, errored, rlClosed,
                   exited, exitCode, now, setCount, recorded>>

\* wss.on('connection')
Connect(c) ==
    /\ ~exited
    /\ wssCloseCalls = 0
    /\ clientState[c] = "new"
    /\ clientState' = [clientState EXCEPT ![c] = "open"]
    /\ ev' = Event("connection", c, Undefined)
    /\ out' = Broadcast(deviceMap, isServerClosing,
                        {x \in Clients : clientState'[x] = "open"})
    /\ UNCHANGED <<deviceMap, isTerminated, endStatsCount, isServerClosing,
                   sweepArmed, timerArmed, drainClients, closedClients,
                   drainListeners, wssCloseCalls, drainCount, errored, rlClosed,
                   exited, exitCode, now, setCount, recorded>>

CanSend(c) == ~exited /\ clientState[c] \in {"open", "closing"}

\* message: terminate_process
MsgTerminateProcess(c, id) ==
    /\ CanSend(c)
    /\ HandleTerminateProcess
    /\ ev' = Event("terminate_process", 0, id)
    /\ out' = <<>>
    /\ UNCHANGED <<deviceMap, isTerminated, endStatsCount, errored, rlClosed,
                   exited, exitCode, now, setCount, recorded>>

\* message: login
MsgLogin(c, device) ==
    /\ CanSend(c)
    /\ ev' = Event("login", 0, device)
    /\ LET loginId == ParseInt(device) IN
       IF ~ShutdownGate(isServerClosing) /\ InRange(loginId)
       THEN /\ deviceMap' = ApplyLogin(deviceMap, MapKey(loginId), now)
            /\ out' = Broadcast(deviceMap', isServerClosing, OpenClients)
       ELSE /\ deviceMap' = deviceMap
            /\ out' = <<>>
    /\ UNCHANGED <<isTerminated, endStatsCount, drainVars, errored, rlClosed,
                   exited, exitCode, now, setCount, recorded>>

\* message: logout
MsgLogout(c, deviceId) ==
    /\ CanSend(c)
    /\ ev' = Event("logout", 0, deviceId)
    /\ LET logoutId == ParseInt(deviceId) IN
       IF ~ShutdownGate(isServerClosing) /\ InRange(logoutId)
       THEN /\ deviceMap' = ApplyLogout(deviceMap, MapKey(logoutId))
            /\ out' = Broadcast(deviceMap', isServerClosing, OpenClients)
       ELSE /\ deviceMap' = deviceMap
            /\ out' = <<>>
    /\ UNCHANGED <<isTerminated, endStatsCount, drainVars, errored, rlClosed,
                   exited, exitCode, now, setCount, recorded>>

\* message: volume
MsgVolume(c, deviceId, vol, avg) ==
    /\ CanSend(c)
    /\ ev' = VolumeEvent(deviceId, vol, avg)
    /\ LET r == UpdateDevice(deviceMap, deviceId, vol, avg, now) IN
       IF ~ShutdownGate(isServerClosing) /\ r.res = "true"
       THEN /\ deviceMap' = r.dm
            /\ recorded' = recorded \cup {MapKey(deviceId)}
            /\ out' = Broadcast(deviceMap', isServerClosing, OpenClients)
       ELSE /\ deviceMap' = deviceMap
            /\ recorded' = recorded
            /\ out' = <<>>
    /\ UNCHANGED <<isTerminated, endStatsCount, drainVars, errored, rlClosed,
                   exited, exitCode, now, setCount>>

\* The six statistics records of handleTerminateSignal, as serialised.
StatsData(dm) ==
    [d \in DeviceIds |->
        [avg |-> Stringify(ToFixed2(dm[d].avg)), deviceId |-> d,
         max |-> Stringify(ToFixed2(dm[d].max)),
         min |-> Stringify(ToFixed2(dm[d].min))]]

\* x.toFixed(2) throws a TypeError when x is undefined.
StatsThrows(dm) ==
    \E d \in DeviceIds :
        dm[d].max.t = "undefined" \/ dm[d].avg.t = "undefined" \/ dm[d].min.t = "undefined"

\* Faulty variant: no guard on isTerminated.
TerminateSignalAlways(terminated) == TRUE

\* handleTerminateSignal(): the guard on isTerminated.
TerminateSignalRuns(terminated) == ~terminated

\* message: terminate
MsgTerminate(c) ==
    /\ CanSend(c)
    /\ ev' = Event("terminate", 0, Undefined)
    /\ IF ~ShutdownGate(isServerClosing) /\ TerminateSignalRuns(isTerminated)
       THEN /\ isTerminated' = TRUE
            /\ IF StatsThrows(deviceMap)
               THEN /\ out' = <<>>
                    /\ endStatsCount' = endStatsCount
               ELSE /\ out' = <<[data |-> StatsData(deviceMap), to |-> OpenClients,
                                 type |-> "end_statistics"]>>
                    /\ endStatsCount' = endStatsCount + 1
       ELSE /\ isTerminated' = isTerminated
            /\ out' = <<>>
            /\ endStatsCount' = endStatsCount
    /\ UNCHANGED <<deviceMap, drainVars, errored, rlClosed, exited, exitCode, now, setCount, recorded>>

\* parseInt(data.deviceId) === 1
IsAdmin(deviceId) == ParseInt(deviceId) = Num(1000)

\* broadcastStartMonitor(): the guard on the two flags.
StartMonitorRuns(closing, terminated) == ~(closing \/ terminated)

\* message: start_monitor
MsgStartMonitor(c, deviceId) ==
    /\ CanSend(c)
    /\ ev' = Event("start_monitor", 0, deviceId)
    /\ out' = IF ~ShutdownGate(isServerClosing) /\ IsAdmin(deviceId)
                 /\ StartMonitorRuns(isServerClosing, isTerminated)
              THEN <<[data |-> NoData, to |-> OpenClients, type |-> "start_monitor"]>>
              ELSE <<>>
    /\ UNCHANGED <<deviceMap, isTerminated, endStatsCount, drainVars, errored,
                   rlClosed, exited, exitCode, now, setCount, recorded>>

\* message: text that is not JSON (JSON.parse throws, caught) or a type the
\* switch does not know (default branch).
MsgOther(c, kind) ==
    /\ CanSend(c)
    /\ ev' = Event(kind, 0, Undefined)
    /\ out' = <<>>
    /\ UNCHANGED <<deviceMap, isTerminated, endStatsCount, drainVars, errored,
                   rlClosed, exited, exitCode, now, setCount, recorded>>

(* ------------------------- transport notifications -------------------- *)
\* closeWebSocketServer() calls made by one close/error notification of c.
CallsOnNotify(c, listeners, closed, clients) ==
    IF c \in listeners /\ AllClientsClosed(closed \cup {c}, clients) THEN 1 ELSE 0

\* The peer starts the closing handshake: readyState becomes CLOSING.
ClientClosing(c) ==
    /\ ~exited
    /\ clientState[c] = "open"
    /\ clientState' = [clientState EXCEPT ![c] = "closing"]
    /\ ev' = Event("peer_closing", c, Undefined)
    /\ out' = <<>>
    /\ UNCHANGED <<deviceMap, isTerminated, endStatsCount, isServerClosing,
                   sweepArmed, timerArmed, drainClients, closedClients,
                   drainListeners, wssCloseCalls, drainCount, errored, rlClosed,
                   exited, exitCode, now, setCount, recorded>>

\* client 'close': the client leaves wss.clients; a drain listener counts it.
ClientClose(c) ==
    /\ ~exited
    /\ clientState[c] \in {"open", "closing"}
    /\ clientState' = [clientState EXCEPT ![c] = "closed"]
    /\ closedClients' = IF c \in drainListeners THEN closedClients \cup {c}
                        ELSE closedClients
    /\ wssCloseCalls' = wssCloseCalls
                        + CallsOnNotify(c, drainListeners, closedClients, drainClients)
    /\ ev' = Event("close", c, Undefined)
    /\ out' = <<>>
    /\ UNCHANGED <<deviceMap, isTerminated, endStatsCount, isServerClosing,
                   sweepArmed, timerArmed, drainClients, drainListeners, drainCount,
                   errored, rlClosed, exited, exitCode, now, setCount, recorded>>

\* client 'error': the transport leaves the connection in readyState CLOSING,
\* its 'close' still to come.  The handler of line 220 does nothing; a drain
\* listener (one run per client) counts the client.
ClientError(c) ==
    /\ ~exited
    /\ clientState[c] \in {"open", "closing"}
    /\ c \notin errored
    /\ errored' = IF c \in drainListeners THEN errored \cup {c} ELSE errored
    /\ clientState' = [clientState EXCEPT ![c] = "closing"]
    /\ closedClients' = IF c \in drainListeners THEN closedClients \cup {c}
                        ELSE closedClients
    /\ wssCloseCalls' = wssCloseCalls
                        + CallsOnNotify(c, drainListeners, closedClients, drainClients)
    /\ ev' = Event("error", c, Undefined)
    /\ out' = <<>>
    /\ UNCHANGED <<deviceMap, isTerminated, endStatsCount, isServerClosing,
                   sweepArmed, timerArmed, drainClients, drainListeners,
                   drainCount, rlClosed, exited, exitCode, now, setCount, recorded>>

\* forceExit(): clearTimeout and process.exit(0).
ForceExit ==
    /\ timerArmed' = FALSE
    /\ exited' = TRUE
    /\ exitCode' = 0

\* The deadline timer of handleTerminateProcess fires.
TimerFire ==
    /\ ~exited
    /\ timerArmed
    /\ ForceExit
    /\ ev' = Event("deadline", 0, Undefined)
    /\ out' = <<>>
    /\ UNCHANGED <<deviceMap, isTerminated, endStatsCount, isServerClosing,
                   sweepArmed, clientState, drainClients, closedClients,
                   drainListeners, wssCloseCalls, drainCount, errored, rlClosed, now, setCount, recorded>>

\* The server's 'close' is emitted once no connection is left: the callback of
\* wss.close runs closeReadline (rl.close(), or forceExit if rl is closed),
\* then the 'close' listener runs closeReadline again and reaches forceExit.
WssClosed ==
    /\ ~exited
    /\ wssCloseCalls > 0
    /\ WssClients = {}
    /\ rlClosed' = TRUE
    /\ ForceExit
    /\ ev' = Event("server_closed", 0, Undefined)
    /\ out' = <<>>
    /\ UNCHANGED <<deviceMap, isTerminated, endStatsCount, isServerClosing,
                   sweepArmed, clientState, drainClients, closedClients,
                   drainListeners, wssCloseCalls, drainCount, errored, now, setCount, recorded>>

(* ------------------------------ console ------------------------------- *)
\* printDeviceStatus(): x.toFixed(2) throws on an undefined field.
PrintThrows(dm) ==
    \E d \in DeviceIds : dm[d].avg.t = "undefined"

\* rl 'line' with the empty string: the status dump.  A TypeError thrown by
\* it is an uncaught exception, whose handler runs closeServer().
ConsoleStatus ==
    /\ ~exited /\ ~rlClosed
    /\ ev' = Event("console_status", 0, Undefined)
    /\ out' = <<>>
    /\ IF ~isServerClosing /\ PrintThrows(deviceMap)
       THEN CloseServer
       ELSE UNCHANGED drainVars
    /\ UNCHANGED <<deviceMap, isTerminated, endStatsCount, errored, rlClosed,
                   exited, exitCode, now, setCount, recorded>>

\* The validity test of the set command.
SetValid(deviceId, vol) ==
    /\ InRange(deviceId)
    /\ vol.t = "num" /\ vol.n >= 0 /\ vol.n <= 100000

\* rl 'line' "set <id> <vol>"
ConsoleSet(idTok, volTok) ==
    /\ ~exited /\ ~rlClosed
    /\ ev' = Event("console_set", 0, idTok)
    /\ LET deviceId == ParseInt(idTok)
           vol == ParseFloat(volTok)
       IN IF ~isServerClosing /\ SetValid(deviceId, vol)
          THEN /\ setCount < MaxSets
               /\ setCount' = setCount + 1
               /\ deviceMap' = ApplySet(deviceMap, MapKey(deviceId), vol, now)
               /\ recorded' = recorded \cup {MapKey(deviceId)}
               /\ out' = Broadcast(deviceMap', isServerClosing, OpenClients)
          ELSE /\ setCount' = setCount
               /\ deviceMap' = deviceMap
               /\ recorded' = recorded
               /\ out' = <<>>
    /\ UNCHANGED <<isTerminated, endStatsCount, drainVars, errored, rlClosed,
                   exited, exitCode, now>>

\* rl 'line' "exit" or "quit"
ConsoleExit ==
    /\ ~exited /\ ~rlClosed
    /\ ev' = Event("console_exit", 0, Undefined)
    /\ out' = <<>>
    /\ IF isServerClosing THEN UNCHANGED drainVars ELSE CloseServer
    /\ UNCHANGED <<deviceMap, isTerminated, endStatsCount, errored, rlClosed,
                   exited, exitCode, now, setCount, recorded>>

\* rl 'close' (end of input)
ConsoleClose ==
    /\ ~exited /\ ~rlClosed
    /\ rlClosed' = TRUE
    /\ ev' = Event("console_close", 0, Undefined)
    /\ out' = <<>>
    /\ IF ~isServerClosing THEN CloseServer ELSE UNCHANGED drainVars
    /\ UNCHANGED <<deviceMap, isTerminated, endStatsCount, errored, exited,
                   exitCode, now, setCount, recorded>>

\* process 'SIGINT'
Sigint ==
    /\ ~exited
    /\ ev' = Event("sigint", 0, Undefined)
    /\ out' = <<>>
    /\ CloseServer
    /\ UNCHANGED <<deviceMap, isTerminated, endStatsCount, errored, rlClosed,
                   exited, exitCode, now, setCount, recorded>>

\* process 'uncaughtException' / 'unhandledRejection'
Uncaught ==
    /\ ~exited
    /\ ev' = Event("uncaught", 0, Undefined)
    /\ out' = <<>>
    /\ IF isServerClosing
       THEN /\ ForceExit
            /\ UNCHANGED <<isServerClosing, sweepArmed, clientState, drainClients,
                           closedClients, drainListeners, wssCloseCalls, drainCount>>
       ELSE /\ CloseServer
            /\ UNCHANGED <<exited, exitCode>>
    /\ UNCHANGED <<deviceMap, isTerminated, endStatsCount, errored, rlClosed, now, setCount, recorded>>

\* One step of the program with its inputs drawn from the given sets.
Step(cl, lids, vms, sids, sets, ticks) ==
    \/ \E d \in ticks : Tick(d)
    \/ Sweep
    \/ \E c \in cl : Connect(c)
    \/ \E c \in cl : MsgTerminateProcess(c, Undefined)
    \/ \E c \in cl, id \in lids : MsgLogin(c, id)
    \/ \E c \in cl, id \in lids : MsgLogout(c, id)
    \/ \E c \in cl, m \in vms : MsgVolume(c, m[1], m[2][1], m[2][2])
    \/ \E c \in cl : MsgTerminate(c)
    \/ \E c \in cl, id \in sids : MsgStartMonitor(c, id)
    \/ \E c \in cl, kind \in {"bad_json", "unknown_type"} : MsgOther(c, kind)
    \/ \E c \in cl : ClientClosing(c)
    \/ \E c \in cl : ClientClose(c)
    \/ \E c \in cl : ClientError(c)
    \/ TimerFire
    \/ WssClosed
    \/ ConsoleStatus
    \/ \E t \in sets : ConsoleSet(t[1], t[2])
    \/ ConsoleExit
    \/ ConsoleClose
    \/ Sigint
    \/ Uncaught

\* The registry under the full set of message inputs, with one client.
Next == Step({1}, LoginIds, VolumeMsgs, StartIds, SetInputs, TickSteps)

Spec == Init /\ [][Next]_vars

\* The drain under every client, with logins and logouts of one device.
NextDrain == Step(Clients, {Num(6000)}, {<<Num(7000), <<Num(0), Num(0)>>>>}, {Num(1000)},
                  {<<Num(7000), Num(0)>>}, {10000})

SpecDrain == Init /\ [][NextDrain]_vars

\* The drain under every client with the registry left alone, and with the
\* timers and the server's close notification scheduled: a pending deadline
\* fires, and a stopped server with no connection left emits its close.
NextQuiet == Step(Clients, {Num(7000)}, {<<Num(7000), <<Num(0), Num(0)>>>>}, {Num(1000)},
                  {<<Num(7000), Num(0)>>}, {10000})

FairDrain == Init /\ [][NextQuiet]_vars /\ WF_vars(TimerFire) /\ WF_vars(WssClosed)

\* The sweep over two devices that log in and out, with one client.
NextSweep == Step({1}, {Num(5000), Num(6000)}, {<<Num(7000), <<Num(0), Num(0)>>>>},
                  {Num(1000)}, {<<Num(7000), Num(0)>>}, TickSteps)

SpecSweep == Init /\ [][NextSweep]_vars

(* ------------------------------ claims -------------------------------- *)
\* A device id that is one of the integers 1..6.
IdIn1to6(v) == v.t = "num" /\ v.n \in {d * 1000 : d \in DeviceIds}

\* The device a login, logout or console set acts on (its parsed id).
EvDevice(e) == MapKey(ParseInt(e.id))

HasBroadcast(o, type) == \E i \in 1..Len(o) : o[i].type = type

\* C1: a login, logout or volume message whose device id is outside 1..6
\* leaves all six device records unchanged and sends nothing.
C1_OutOfRangeIgnored ==
    [][(ev'.type \in {"login", "logout", "volume"} /\ ~IdIn1to6(ev'.id))
         => (deviceMap' = deviceMap /\ out' = <<>>)]_vars

\* C2: a sweep at time now demotes exactly the online devices whose
\* lastUpdate is DEVICE_TIMEOUT or more in the past, and an online device
\* goes offline only by such a sweep or by a logout.
C2_SweepTimeout ==
    [][/\ (ev'.type = "sweep" /\ ~isServerClosing) =>
             \A d \in DeviceIds : deviceMap[d].con =>
                 (deviceMap'[d].con = (now - deviceMap[d].lastUpdate < DEVICE_TIMEOUT))
       /\ \A d \in DeviceIds : (deviceMap[d].con /\ ~deviceMap'[d].con) =>
             \/ ev'.type = "logout"
             \/ ev'.type = "sweep" /\ now - deviceMap[d].lastUpdate >= DEVICE_TIMEOUT
      ]_vars

C2_Witness ==
    /\ ev.type = "sweep"
    /\ out # <<>>
    /\ \E d \in DeviceIds : ~deviceMap[d].con /\ now - deviceMap[d].lastUpdate = DEVICE_TIMEOUT

\* C3: once shutdown has begun the process eventually exits, and every exit
\* has status 0.
C3_ShutdownExits ==
    /\ isServerClosing ~> exited
    /\ [](exited => exitCode = 0)

\* The deadline forced the exit while no captured client had been counted.
C3_Witness ==
    /\ exited
    /\ ev.type = "deadline"
    /\ Cardinality(drainClients) = MaxClients
    /\ closedClients = {}

\* C4 (as stated): whenever draining has been entered with clients open, an
\* end_statistics broadcast has been issued.
C4_DrainFlushesStatistics ==
    (isServerClosing /\ drainListeners # {}) => endStatsCount > 0

\* C4 (amended): the step that enters draining sends nothing, and an
\* end_statistics broadcast is issued only by a terminate message processed
\* before termination and shutdown, to the clients open at that moment.
C4_StatisticsOnlyOnTerminate ==
    [][/\ (~isServerClosing /\ isServerClosing') => out' = <<>>
       /\ HasBroadcast(out', "end_statistics") =>
             /\ ev'.type = "terminate"
             /\ ~isTerminated /\ ~isServerClosing
             /\ Len(out') = 1
             /\ out'[1].to = OpenClients
      ]_vars

C4_Witness ==
    /\ ev.type = "terminate_process"
    /\ isServerClosing
    /\ drainListeners # {}
    /\ out = <<>>
    /\ endStatsCount = 0

\* C5: at most one end_statistics broadcast is ever issued; a terminate
\* message processed when isTerminated is set sends nothing and changes no
\* state.
C5_TerminateOnce ==
    /\ [](endStatsCount <= 1)
    /\ [][(ev'.type = "terminate" /\ isTerminated)
            => (out' = <<>> /\ UNCHANGED progVars /\ endStatsCount' = endStatsCount)]_vars
    /\ [][(ev'.type = "terminate" /\ ~isTerminated /\ ~isServerClosing)
            => isTerminated']_vars

C5_Witness ==
    /\ ev.type = "terminate"
    /\ ~isServerClosing
    /\ isTerminated
    /\ endStatsCount = 1
    /\ out = <<>>

\* The shutdown triggers C6 names.
Triggers == {"terminate_process", "console_exit", "console_close", "sigint"}

\* C6: draining is entered at most once, a trigger processed while closing
\* leaves the captured list, the close requests and the timer alone, and the
\* two flags never go back to false.
C6_DrainOnce ==
    /\ [](drainCount <= 1)
    /\ [][(isServerClosing /\ ev'.type \in Triggers) => UNCHANGED drainVars]_vars
    /\ [][(isServerClosing => isServerClosing') /\ (isTerminated => isTerminated')]_vars

\* A trigger processed after a captured client had already been counted.
C6_Witness ==
    /\ ev.type \in Triggers
    /\ drainCount = 1
    /\ closedClients \cap drainListeners # {}

\* C7: a start_monitor message is broadcast iff its deviceId is 1 and neither
\* flag is set, and it never changes a device record.
C7_StartMonitorOnlyAdmin ==
    [][ev'.type = "start_monitor" =>
          /\ deviceMap' = deviceMap
          /\ HasBroadcast(out', "start_monitor")
               <=> (ev'.id = Num(1000) /\ ~isTerminated /\ ~isServerClosing)
      ]_vars

\* C8: unless a reading without a numeric value is stored, max never
\* decreases and min never increases, whatever the step.
C8_Watermarks ==
    [][\A d \in DeviceIds :
          (IsNumber(deviceMap[d].max) /\ IsNumber(deviceMap[d].min)
             /\ IsNumber(deviceMap'[d].vol)) =>
            /\ IsNumber(deviceMap'[d].max) /\ deviceMap'[d].max.n >= deviceMap[d].max.n
            /\ IsNumber(deviceMap'[d].min) /\ deviceMap'[d].min.n <= deviceMap[d].min.n
      ]_vars

\* A reading below the high watermark and above the low one was stored.
C8_Witness ==
    /\ ev.type \in {"volume", "console_set"}
    /\ \E d \in DeviceIds :
          /\ IsNumber(deviceMap[d].max) /\ IsNumber(deviceMap[d].min)
          /\ IsNumber(deviceMap[d].vol)
          /\ deviceMap[d].min.n < deviceMap[d].vol.n
          /\ deviceMap[d].vol.n < deviceMap[d].max.n

\* What a session receives as it opens: one snapshot of the six records.
OpensWithSnapshot ==
    /\ Len(out) = 1
    /\ out[1].type = "snapshot"
    /\ ev.c \in out[1].to
    /\ out[1].data = Snapshot(deviceMap)

\* C9 (as stated): every session that opens receives one full snapshot.
C9_SnapshotOnOpen ==
    ev.type = "connection" => OpensWithSnapshot

\* C9 (amended): every session that opens while the server is not closing
\* receives one full snapshot.
C9_SnapshotOnOpenUnlessClosing ==
    (ev.type = "connection" /\ ~isServerClosing) => OpensWithSnapshot

C9_Witness ==
    /\ ev.type = "connection"
    /\ ~isServerClosing
    /\ Cardinality(out[1].to) = MaxClients

\* C10: a sweep leaves every offline device as it is, and a device goes
\* online only in a step that processes a login, a reading or a console set
\* for it.
C10_SweepOnlyDemotes ==
    [][/\ ev'.type = "sweep" =>
             \A d \in DeviceIds : ~deviceMap[d].con => deviceMap'[d] = deviceMap[d]
       /\ \A d \in DeviceIds : (~deviceMap[d].con /\ deviceMap'[d].con) =>
             /\ ev'.type \in {"login", "volume", "console_set"}
             /\ EvDevice(ev') = d
      ]_vars

\* A sweep ran over an offline device whose lastUpdate is within the timeout.
C10_Witness ==
    /\ ev.type = "sweep"
    /\ \E d \in DeviceIds :
          ~deviceMap[d].con /\ deviceMap[d].lastUpdate > 0
             /\ now - deviceMap[d].lastUpdate < DEVICE_TIMEOUT

\* a <= b as JavaScript compares them: false when either side is not a number.
LessEq(a, b) == a.t = "num" /\ b.t = "num" /\ a.n <= b.n

\* C11: every device for which a reading has been stored (by a volume
\* message or a console set) has min <= vol <= max.
C11_ReadingWithinWatermarks ==
    \A d \in recorded :
        LessEq(deviceMap[d].min, deviceMap[d].vol) /\ LessEq(deviceMap[d].vol, deviceMap[d].max)

\* C12: while the server is closing and the process has not exited, the
\* deadline timer is pending, whatever the number of clients captured.
C12_DeadlineAlwaysArmed ==
    (isServerClosing /\ ~exited) => timerArmed

\* C13: a logout processed for a device id in 1..6 sets that device's con to
\* false, leaves its other fields and the other five devices unchanged, and
\* is followed by exactly one snapshot broadcast.
C13_LogoutFrame ==
    [][(ev'.type = "logout" /\ IdIn1to6(ev'.id) /\ ~isServerClosing) =>
          /\ ~deviceMap'[EvDevice(ev')].con
          /\ \A d \in DeviceIds :
                /\ deviceMap'[d].vol = deviceMap[d].vol
                /\ deviceMap'[d].avg = deviceMap[d].avg
                /\ deviceMap'[d].max = deviceMap[d].max
                /\ deviceMap'[d].min = deviceMap[d].min
                /\ deviceMap'[d].lastUpdate = deviceMap[d].lastUpdate
                /\ d # EvDevice(ev') => deviceMap'[d] = deviceMap[d]
          /\ Len(out') = 1
          /\ out'[1].type = "snapshot"
          /\ out'[1].data = Snapshot(deviceMap')
      ]_vars

\* A logout of a device whose last reading lies below its high watermark,
\* some time after that reading.
C13_Witness ==
    /\ ev.type = "logout"
    /\ ev.id = Num(6000)
    /\ 6 \in recorded
    /\ ~deviceMap[6].con
    /\ IsNumber(deviceMap[6].vol) /\ IsNumber(deviceMap[6].max)
    /\ deviceMap[6].vol.n < deviceMap[6].max.n
    /\ deviceMap[6].lastUpdate < now
    /\ Len(out) = 1

\* A volume message for one of the devices 1..6 whose vol or avg is missing
\* or not a number.
MalformedReading(e) ==
    e.type = "volume" /\ IdIn1to6(e.id) /\ (~IsNumber(e.vol) \/ ~IsNumber(e.avg))

\* C14: a message that is not JSON, has an unknown type, or is a volume
\* message for a device in 1..6 without a numeric vol or avg leaves every
\* device record unchanged, sends nothing and does not start a shutdown.
C14_MalformedIgnored ==
    [][(ev'.type \in {"bad_json", "unknown_type"} \/ MalformedReading(ev')) =>
          /\ deviceMap' = deviceMap
          /\ out' = <<>>
          /\ isServerClosing' = isServerClosing
          /\ exited' = exited
      ]_vars

\* C15: the first terminate message processed before shutdown issues one
\* end_statistics broadcast with the six records of the current table, and
\* isTerminated is set only in states where such a broadcast has been issued.
C15_FirstTerminateReports ==
    /\ [][(ev'.type = "terminate" /\ ~isTerminated /\ ~isServerClosing) =>
             /\ Len(out') = 1
             /\ out'[1].type = "end_statistics"
             /\ out'[1].data = StatsData(deviceMap)
             /\ endStatsCount' = endStatsCount + 1
         ]_vars
    /\ [](isTerminated => endStatsCount > 0)

\* C16: once the server is closing no step changes a device record or the
\* termination flag, no step sends a message, the sweep no longer runs, and
\* a terminate_process message changes nothing at all.
C16_ClosingAcceptsNoWork ==
    [][isServerClosing =>
          /\ deviceMap' = deviceMap
          /\ recorded' = recorded
          /\ isTerminated' = isTerminated
          /\ out' = <<>>
          /\ ev'.type # "sweep"
          /\ ev'.type = "terminate_process" => UNCHANGED progVars
      ]_vars

\* A well-formed reading for device 6 arrived while closing and was dropped.
C16_Witness ==
    /\ isServerClosing
    /\ ~exited
    /\ ev.type = "volume"
    /\ ev.id = Num(6000)
    /\ IsNumber(ev.vol) /\ IsNumber(ev.avg)
    /\ 6 \notin recorded
    /\ out = <<>>

\* C17: a sweep in which some device goes from online to offline issues
\* exactly one snapshot, to the open clients, holding the six records in id
\* order as they are after the whole sweep; any other sweep sends nothing.
C17_SweepBroadcast ==
    [][ev'.type = "sweep" =>
          IF \E d \in DeviceIds : deviceMap[d].con /\ ~deviceMap'[d].con
          THEN /\ Len(out') = 1
               /\ out'[1].type = "snapshot"
               /\ out'[1].to = OpenClients
               /\ DOMAIN out'[1].data = DeviceIds
               /\ \A d \in DeviceIds :
                     /\ out'[1].data[d].deviceId = d
                     /\ out'[1].data[d].con = deviceMap'[d].con
                     /\ out'[1].data[d].lastUpdate = deviceMap'[d].lastUpdate
                     /\ out'[1].data[d].vol = Stringify(deviceMap'[d].vol)
                     /\ out'[1].data[d].max = Stringify(deviceMap'[d].max)
                     /\ out'[1].data[d].min = Stringify(deviceMap'[d].min)
          ELSE out' = <<>>
      ]_vars

\* A sweep demoted device 5 and kept device 6 online, and its one snapshot
\* went to a connected client.
C17_Witness ==
    /\ ev.type = "sweep"
    /\ Len(out) = 1
    /\ out[1].to # {}
    /\ ~out[1].data[5].con
    /\ out[1].data[5].lastUpdate + DEVICE_TIMEOUT <= now
    /\ out[1].data[6].con

\* C18: while closing, the transport server stop has been requested exactly
\* when every client captured at the entry to draining has been counted
\* closed, and only captured clients are ever counted.
C18_StopAfterAllCounted ==
    /\ closedClients \subseteq drainClients
    /\ isServerClosing => (wssCloseCalls > 0 <=> closedClients = drainClients)
    /\ ~isServerClosing => wssCloseCalls = 0

\* The stop was requested after the one captured client closed, while a
\* client that connected after the capture is still open.
C18_Witness ==
    /\ wssCloseCalls > 0
    /\ drainClients # {}
    /\ closedClients = drainClients
    /\ \E c \in Clients : c \notin drainClients /\ clientState[c] = "open"

\* C19: a step that takes a device from offline to online sets its
\* lastUpdate to the current time; so does every login, accepted reading and
\* console set for the device; and a sweep demotes a device only when
\* DEVICE_TIMEOUT has passed since its lastUpdate.
C19_OnlineWithFreshLastUpdate ==
    [][/\ \A d \in DeviceIds :
             (~deviceMap[d].con /\ deviceMap'[d].con) =>
                 (deviceMap'[d].lastUpdate = now /\ now' = now)
       /\ (ev'.type \in {"login", "volume", "console_set"} /\ deviceMap' # deviceMap) =>
             /\ deviceMap'[EvDevice(ev')].con
             /\ deviceMap'[EvDevice(ev')].lastUpdate = now
       /\ \A d \in DeviceIds :
             (ev'.type = "sweep" /\ deviceMap[d].con /\ ~deviceMap'[d].con) =>
                 now >= deviceMap[d].lastUpdate + DEVICE_TIMEOUT
      ]_vars

\* A login brought device 6 online some time after its last update, and a
\* sweep at that time kept it online.
C19_Witness ==
    /\ ev.type = "sweep"
    /\ now = DEVICE_TIMEOUT
    /\ deviceMap[6].con
    /\ deviceMap[6].lastUpdate = now
    /\ 6 \notin recorded

\* C20: closeWebSocketServer is called at most once in a run, whatever the
\* close and error notifications of the captured clients.
C20_StopRequestedOnce ==
    wssCloseCalls <= 1
====
